---- MODULE Spec2Model ----
(***************************************************************************)
(* The crash dashboard of src/app.py: the dataset df loaded at import, and *)
(* the view function index() that filters it by the form fields borough,   *)
(* year and search and builds the eight chart aggregates.                  *)
(*                                                                         *)
(* Text is a sequence of one-character strings, so that upper(), lower(),  *)
(* strip(), int(), str() and the substring test `in` are computed.         *)
(* A view (a filtered DataFrame) is the sequence of the index labels of    *)
(* its rows: boolean-mask selection keeps the labels of df and their order.*)
(***************************************************************************)
EXTENDS Integers, Sequences, FiniteSets

VARIABLES df, phase, method, borough, year, search, filtered, outcome, resp

vars == <<df, phase, method, borough, year, search, filtered, outcome, resp>>

\* ------------------------------------------------------------------ bounds

\* Longest dataset drawn exhaustively from RawRows.
MaxRows == 3

\* ------------------------------------------------------------------- text

Uppers == <<"A","B","C","D","E","F","G","H","I","J","K","L","M",
            "N","O","P","Q","R","S","T","U","V","W","X","Y","Z">>

Lowers == <<"a","b","c","d","e","f","g","h","i","j","k","l","m",
            "n","o","p","q","r","s","t","u","v","w","x","y","z">>

DigitChars == <<"0","1","2","3","4","5","6","7","8","9">>

\* The characters in code-point order: space, sign, digits, upper case, lower case.
Chars == <<" ", "+", "-">> \o DigitChars \o Uppers \o Lowers

IndexIn(seq, c) == CHOOSE i \in 1..Len(seq) : seq[i] = c

Has(seq, c) == \E i \in 1..Len(seq) : seq[i] = c

\* str.upper(), str.lower(), one character at a time
UpperChar(c) == IF Has(Lowers, c) THEN Uppers[IndexIn(Lowers, c)] ELSE c

LowerChar(c) == IF Has(Uppers, c) THEN Lowers[IndexIn(Uppers, c)] ELSE c

RECURSIVE Upper(_)
Upper(s) == IF s = <<>> THEN <<>> ELSE <<UpperChar(Head(s))>> \o Upper(Tail(s))

RECURSIVE Lower(_)
Lower(s) == IF s = <<>> THEN <<>> ELSE <<LowerChar(Head(s))>> \o Lower(Tail(s))

RECURSIVE LStrip(_)
LStrip(s) == IF s # <<>> /\ Head(s) = " " THEN LStrip(Tail(s)) ELSE s

RECURSIVE RStrip(_)
RStrip(s) ==
    IF s # <<>> /\ s[Len(s)] = " " THEN RStrip(SubSeq(s, 1, Len(s) - 1)) ELSE s

\* str.strip()
Strip(s) == RStrip(LStrip(s))

\* Python's `p in s` on strings
IsSubstr(p, s) ==
    \E i \in 0..(Len(s) - Len(p)) : SubSeq(s, i + 1, i + Len(p)) = p

\* lexicographic order by code point, the order sorted() and groupby use
RECURSIVE LexLess(_, _)
LexLess(a, b) ==
    IF b = <<>> THEN FALSE
    ELSE IF a = <<>> THEN TRUE
    ELSE IF Head(a) = Head(b) THEN LexLess(Tail(a), Tail(b))
    ELSE IndexIn(Chars, Head(a)) < IndexIn(Chars, Head(b))

IsDigits(s) == s # <<>> /\ \A i \in 1..Len(s) : Has(DigitChars, s[i])

RECURSIVE DigitsValue(_)
DigitsValue(s) ==
    IF s = <<>> THEN 0
    ELSE 10 * DigitsValue(SubSeq(s, 1, Len(s) - 1))
         + (IndexIn(DigitChars, s[Len(s)]) - 1)

\* int(text): surrounding white space and one sign are accepted; anything else
\* raises ValueError (ok = FALSE).
ParseInt(text) ==
    LET t == Strip(text)
        signed == t # <<>> /\ Head(t) \in {"+", "-"}
        body == IF signed THEN Tail(t) ELSE t
    IN  IF IsDigits(body)
        THEN [ok |-> TRUE,
              val |-> IF signed /\ Head(t) = "-" THEN 0 - DigitsValue(body)
                      ELSE DigitsValue(body)]
        ELSE [ok |-> FALSE, val |-> 0]

\* str(n) for n >= 0
RECURSIVE IntToStr(_)
IntToStr(n) ==
    IF n < 10 THEN <<DigitChars[n + 1]>>
    ELSE IntToStr(n \div 10) \o <<DigitChars[(n % 10) + 1]>>

\* ---------------------------------------------------------------- dataset

\* A missing value: NaT/NaN of a year or a coordinate (never equal to anything).
NaN == 0

\* A CSV cell of a text column: missing, or its text.
Null == [null |-> TRUE, text |-> <<>>]

Cell(t) == [null |-> FALSE, text |-> t]

UNKNOWN == <<"U","N","K","N","O","W","N">>

\* Rows as read_csv and the two to_datetime calls deliver them: the year is
\* already the parsed date's year, or NaN where the date did not parse.
\* Coordinates are in tenths of a degree.
RawRow(b, y, v, inj, kil, lat, lon, f) ==
    [borough |-> b, year |-> y, vehicle_type_code1 |-> v,
     number_of_persons_injured |-> inj, number_of_persons_killed |-> kil,
     latitude |-> lat, longitude |-> lon, contributing_factor |-> f]

FactorPedestrian == <<"P","e","d","e","s","t","r","i","a","n"," ","E","r","r","o","r">>

FactorOther == <<"U","n","s","a","f","e"," ","S","p","e","e","d">>

\* The CSV rows the small datasets are drawn from: boroughs "Bronx",
\* "queens ", a blank " " and a missing one; years 2020, 2021 and a date that
\* did not parse; vehicle types "CAB", "SUV", "" and a missing one.
RawRows ==
    { RawRow(Cell(<<"B","r","o","n","x">>), 2020, Cell(<<"C","A","B">>), 1, 0, 407, -739, FactorPedestrian),
      RawRow(Cell(<<"q","u","e","e","n","s"," ">>), 2020, Cell(<<"S","U","V">>), 0, 1, NaN, NaN, FactorOther),
      RawRow(Cell(<<"B","r","o","n","x">>), 2021, Cell(<<>>), 2, 0, 407, -739, FactorOther),
      RawRow(Null, NaN, Cell(<<"C","A","B">>), 1, 1, 407, NaN, FactorPedestrian),
      RawRow(Cell(<<" ">>), 2021, Null, 0, 0, 407, -739, FactorOther) }

\* Vehicle types of the wide datasets, which have more types than the bar
\* chart keeps.
WideVehicles == <<<<"C","A","B">>, <<"S","U","V">>, <<"V","A","N">>, <<"B","U","S">>, <<"B","I","K","E">>, <<"T","A","X","I">>,
                  <<"M","O","P","E","D">>, <<"T","R","U","C","K">>, <<"J","E","E","P">>, <<"L","I","M","O">>, <<"T","A","N","K">>, <<"S","L","E","D">>>>

WidePatterns ==
    { <<1, 2, 3, 4, 5, 6, 7, 8, 9, 10, 11, 12>>,
      <<1, 2, 3, 4, 5, 6, 7, 8, 9, 10, 11, 12, 12, 11, 11>>,
      <<1, 2, 2, 3, 3, 3, 4, 5, 6, 7, 8, 9, 10, 11, 11>>,
      <<1, 2, 3, 4, 5, 6, 7, 8, 9, 9>> }

RECURSIVE WideRaw(_)
WideRaw(p) ==
    IF p = <<>> THEN <<>>
    ELSE WideRaw(SubSeq(p, 1, Len(p) - 1))
         \o <<RawRow(Cell(IF Len(p) % 2 = 0 THEN <<"q","u","e","e","n","s"," ">> ELSE <<"B","r","o","n","x">>),
                     2020 + (Len(p) % 2), Cell(WideVehicles[p[Len(p)]]),
                     Len(p) % 3, 0, 407, -739, FactorOther)>>

RECURSIVE SeqsUpTo(_, _)
SeqsUpTo(S, n) ==
    IF n = 0 THEN {<<>>}
    ELSE LET shorter == SeqsUpTo(S, n - 1)
         IN  shorter \cup { Append(q, r) : q \in shorter, r \in S }

RawDatasets == SeqsUpTo(RawRows, MaxRows) \cup { WideRaw(p) : p \in WidePatterns }

\* df["borough"].astype(str): a missing value becomes the text "nan"
AsTypeStr(c) == IF c.null THEN <<"n","a","n">> ELSE c.text

\* .replace("", "UNKNOWN").fillna("UNKNOWN")
FillUnknown(c) == IF c.null \/ c.text = <<>> THEN UNKNOWN ELSE c.text

LoadRow(r) ==
    [r EXCEPT !.borough = Strip(Upper(AsTypeStr(r.borough))),
              !.vehicle_type_code1 = FillUnknown(r.vehicle_type_code1)]

RECURSIVE LoadData(_)
LoadData(raw) ==
    IF raw = <<>> THEN <<>> ELSE <<LoadRow(Head(raw))>> \o LoadData(Tail(raw))

\* Series.unique(): the distinct values in order of first appearance
RECURSIVE Unique(_)
Unique(s) ==
    IF s = <<>> THEN <<>>
    ELSE LET u == Unique(SubSeq(s, 1, Len(s) - 1))
             x == s[Len(s)]
         IN  IF \E i \in 1..Len(u) : u[i] = x THEN u ELSE Append(u, x)

RECURSIVE Column(_, _, _)
\* the column `col` of the rows of `data` a view holds
Column(data, view, col) ==
    IF view = <<>> THEN <<>>
    ELSE <<data[Head(view)][col]>> \o Column(data, Tail(view), col)

AllRows(data) == [i \in 1..Len(data) |-> i]

\* .dropna() on a numeric column
DropNaN(s) == LET Keep(x) == x # NaN IN SelectSeq(s, Keep)

\* df["borough"].unique() and df["year"].dropna().unique()
KnownBoroughs(data) == Unique(Column(data, AllRows(data), "borough"))

KnownYears(data) == Unique(DropNaN(Column(data, AllRows(data), "year")))

\* ----------------------------------------------------------------- filters

\* filtered[filtered["borough"] == b]
FilterBorough(data, view, b) ==
    LET Keep(i) == data[i].borough = b IN SelectSeq(view, Keep)

\* filtered[filtered["year"] == y]: NaN equals nothing
FilterYear(data, view, y) ==
    LET Keep(i) == data[i].year # NaN /\ data[i].year = y IN SelectSeq(view, Keep)

All == <<"A","l","l">>

\* `if borough and borough != "All"`
IsSet(field) == field # <<>> /\ field # All

\* the selection of line 45 computed and dropped, `filtered` not rebound
ExactBoroughUnassigned(data, view, b) == view

\* lines 44-45
ExactBorough(data, view, b) ==
    IF IsSet(b) THEN FilterBorough(data, view, Upper(b)) ELSE view

\* line 47-48; int(year) raises where the text is no integer
YearRaises(y) == IsSet(y) /\ ~ParseInt(y).ok

ExactYear(data, view, y) ==
    IF IsSet(y) THEN FilterYear(data, view, ParseInt(y).val) ELSE view

\* each match restricts the whole dataset instead of the view so far, so the
\* last match wins
RECURSIVE SearchBoroughsLastWins(_, _, _, _)
SearchBoroughsLastWins(data, view, names, s) ==
    IF names = <<>> THEN view
    ELSE SearchBoroughsLastWins(data,
                                IF IsSubstr(Lower(Head(names)), s)
                                THEN FilterBorough(data, AllRows(data), Head(names))
                                ELSE view,
                                Tail(names), s)

\* lines 54-56: each known borough whose lower-cased name is in s restricts
\* the view so far
RECURSIVE SearchBoroughs(_, _, _, _)
SearchBoroughs(data, view, names, s) ==
    IF names = <<>> THEN view
    ELSE SearchBoroughs(data,
                        IF IsSubstr(Lower(Head(names)), s)
                        THEN FilterBorough(data, view, Head(names))
                        ELSE view,
                        Tail(names), s)

\* str(y) in place of str(int(y)): the float's text, "2020.0", is searched for
RECURSIVE SearchYearsFloatText(_, _, _, _)
SearchYearsFloatText(data, view, ys, s) ==
    IF ys = <<>> THEN view
    ELSE SearchYearsFloatText(data,
                              IF IsSubstr(IntToStr(Head(ys)) \o <<".", "0">>, s)
                              THEN FilterYear(data, view, Head(ys))
                              ELSE view,
                              Tail(ys), s)

\* lines 59-61
RECURSIVE SearchYears(_, _, _, _)
SearchYears(data, view, ys, s) ==
    IF ys = <<>> THEN view
    ELSE SearchYears(data,
                     IF IsSubstr(IntToStr(Head(ys)), s)
                     THEN FilterYear(data, view, Head(ys))
                     ELSE view,
                     Tail(ys), s)

\* lines 50-61
SearchFilter(data, view, text) ==
    IF text = <<>> THEN view
    ELSE LET s == Lower(text)
         IN  SearchYears(data,
                         SearchBoroughs(data, view, KnownBoroughs(data), s),
                         KnownYears(data), s)

\* lines 30-61, for a request whose int(year) does not raise
ApplyFilters(data, m, b, y, text) ==
    IF m = "POST"
    THEN SearchFilter(data, ExactYear(data, ExactBorough(data, AllRows(data), b), y), text)
    ELSE AllRows(data)

\* -------------------------------------------------------------- aggregates

\* nlargest(10), line 81
TopN == 10

RECURSIVE Sum(_)
Sum(s) == IF s = <<>> THEN 0 ELSE Head(s) + Sum(Tail(s))

CountOf(s, x) == LET Same(v) == v = x IN Len(SelectSeq(s, Same))

Min(a, b) == IF a < b THEN a ELSE b

RemoveAt(s, i) == SubSeq(s, 1, i - 1) \o SubSeq(s, i + 1, Len(s))

\* value_counts() before its sort: one entry per distinct value, in order of
\* first appearance
Counts(col) ==
    LET u == Unique(col)
    IN  [i \in 1..Len(u) |-> [vehicle_type |-> u[i], count |-> CountOf(col, u[i])]]

\* The orders in which a sort may leave entries of equal count. value_counts()
\* sorts with sort_values(ascending=False), and so does nlargest(n) of a series
\* of at most n entries; the default sort of sort_values is not a stable one:
\* the source fixes no order among equal counts, and the order depends on the
\* pandas and numpy build. "first" keeps equal counts in the order the sort
\* finds them in, "last" reverses it. TieOrders holds a choice for each of the
\* two sorts.
TieOrders == {"first", "last"} \X {"first", "last"}

\* descending by count; `tie` picks among the entries of the largest count
RECURSIVE SortValues(_, _)
SortValues(entries, tie) ==
    IF entries = <<>> THEN <<>>
    ELSE LET top == { i \in 1..Len(entries) :
                        \A j \in 1..Len(entries) : entries[j].count <= entries[i].count }
             pick == IF tie = "first"
                     THEN CHOOSE i \in top : \A j \in top : i <= j
                     ELSE CHOOSE i \in top : \A j \in top : j <= i
         IN  <<entries[pick]>> \o SortValues(RemoveAt(entries, pick), tie)

\* Series.nlargest(n), keep="first": the n largest, descending, equal values in
\* their order in the series; a series of at most n entries is sorted with
\* sort_values instead
NLargest(entries, n, tie) ==
    IF n >= Len(entries)
    THEN SortValues(entries, tie)
    ELSE SubSeq(SortValues(entries, "first"), 1, n)

\* value_counts(sort=False).head(10): the first ten types seen
TopVehicleTypesHead(data, view, tie) ==
    LET c == Counts(Column(data, view, "vehicle_type_code1"))
    IN  SubSeq(c, 1, Min(TopN, Len(c)))

\* line 81: value_counts().nlargest(10)
TopVehicleTypes(data, view, tie) ==
    NLargest(SortValues(Counts(Column(data, view, "vehicle_type_code1")), tie[1]),
             TopN, tie[2])

\* lines 92-95
InjuredKilled(data, view) ==
    <<Sum(Column(data, view, "number_of_persons_injured")),
      Sum(Column(data, view, "number_of_persons_killed"))>>

\* line 102: dropna(subset=["latitude", "longitude"])
MapData(data, view) ==
    LET Keep(i) == data[i].latitude # NaN /\ data[i].longitude # NaN
    IN  SelectSeq(view, Keep)

RECURSIVE Points(_, _)
Points(data, view) ==
    IF view = <<>> THEN <<>>
    ELSE <<<<data[Head(view)].latitude, data[Head(view)].longitude,
             data[Head(view)].borough>>>> \o Points(data, Tail(view))

\* lines 115-116: lat=[40.7], lon=[-74.0], in tenths of a degree
FallbackPoint == <<407, -740>>

\* lines 104-119
MapFig(data, view) ==
    IF MapData(data, view) # <<>>
    THEN [title |-> "Crash Locations", data |-> Points(data, MapData(data, view))]
    ELSE [title |-> "No Location Data", data |-> <<FallbackPoint>>]

Range(s) == { s[i] : i \in 1..Len(s) }

\* the numbers of a set, ascending
RECURSIVE SortedInts(_)
SortedInts(S) ==
    IF S = {} THEN <<>>
    ELSE LET m == CHOOSE x \in S : \A z \in S : x <= z
         IN  <<m>> \o SortedInts(S \ {m})

\* the texts of a set, ascending
RECURSIVE SortedTexts(_)
SortedTexts(S) ==
    IF S = {} THEN <<>>
    ELSE LET m == CHOOSE x \in S : \A z \in S : z = x \/ LexLess(x, z)
         IN  <<m>> \o SortedTexts(S \ {m})

\* the years of the view's rows, NaN dropped as groupby drops it
ViewYears(data, view) == Range(DropNaN(Column(data, view, "year")))

\* line 124: groupby("year").size(), ascending by year
CrashesPerYear(data, view) ==
    LET ys == SortedInts(ViewYears(data, view))
    IN  [k \in 1..Len(ys) |-> <<ys[k], CountOf(Column(data, view, "year"), ys[k])>>]

\* the rows of a (borough, year) group
GroupRows(data, view, b, y) == FilterYear(data, FilterBorough(data, view, b), y)

\* line 131: the groups of groupby(["borough", "year"]); a row whose year is
\* NaN is in no group
BoroughYearGroups(data, view) ==
    { <<data[view[k]].borough, data[view[k]].year>> :
        k \in { n \in 1..Len(view) : data[view[n]].year # NaN } }

\* .size() in place of ["number_of_persons_injured"].sum(): rows counted
InjuryMatrixOfCounts(data, view) ==
    LET groups == BoroughYearGroups(data, view)
        index == SortedTexts({ g[1] : g \in groups })
        columns == SortedInts({ g[2] : g \in groups })
    IN  [index |-> index, columns |-> columns,
         z |-> [i \in 1..Len(index) |-> [j \in 1..Len(columns) |->
                  Len(GroupRows(data, view, index[i], columns[j]))]]]

\* lines 131-134: the sums per group, pivoted to borough rows and year
\* columns, fill_value=0
InjuryMatrix(data, view) ==
    LET groups == BoroughYearGroups(data, view)
        index == SortedTexts({ g[1] : g \in groups })
        columns == SortedInts({ g[2] : g \in groups })
    IN  [index |-> index, columns |-> columns,
         z |-> [i \in 1..Len(index) |-> [j \in 1..Len(columns) |->
                  IF <<index[i], columns[j]>> \in groups
                  THEN Sum(Column(data, GroupRows(data, view, index[i], columns[j]),
                                  "number_of_persons_injured"))
                  ELSE 0]]]

\* lines 148-153
RECURSIVE ScatterPoints(_, _)
ScatterPoints(data, view) ==
    IF view = <<>> THEN <<>>
    ELSE <<<<data[Head(view)].number_of_persons_injured,
             data[Head(view)].number_of_persons_killed,
             data[Head(view)].borough>>>> \o ScatterPoints(data, Tail(view))

\* lines 159-161: groupby(["borough", "vehicle_type_code1"]), injuries summed,
\* groups ascending by borough, then by vehicle type
SunData(data, view) ==
    LET bs == SortedTexts(Range(Column(data, view, "borough")))
        Types(b) == SortedTexts(Range(Column(data, FilterBorough(data, view, b),
                                             "vehicle_type_code1")))
        Of(b, v) == LET Keep(i) == data[i].vehicle_type_code1 = v
                    IN  SelectSeq(FilterBorough(data, view, b), Keep)
        Group(b) == [k \in 1..Len(Types(b)) |->
                       <<b, Types(b)[k],
                         Sum(Column(data, Of(b, Types(b)[k]),
                                    "number_of_persons_injured"))>>]
        RECURSIVE Cat(_)
        Cat(k) == IF k = 0 THEN <<>> ELSE Cat(k - 1) \o Group(bs[k])
    IN  Cat(Len(bs))

Fig(title, data) == [title |-> title, data |-> data]

\* lines 67-68: px.scatter(title="(warning sign) No Data Available"), no data
EmptyFig == Fig("No Data Available", <<>>)

\* lines 73-76 and 192-195: the rest of the template context
Context(data, b, y) ==
    [boroughs |-> SortedTexts(Range(KnownBoroughs(data))),
     years |-> SortedInts(Range(KnownYears(data))),
     selected_borough |-> b, selected_year |-> y]

\* lines 66-76
FallbackResponse(data, b, y) ==
    [bar |-> EmptyFig, pie |-> EmptyFig, map |-> EmptyFig, line |-> EmptyFig,
     heat |-> EmptyFig, hist |-> EmptyFig, scatter |-> EmptyFig,
     sunburst |-> EmptyFig, context |-> Context(data, b, y)]

\* lines 81-196
ChartsResponse(data, view, b, y, tie) ==
    [bar |-> Fig("Top 10 Vehicle Types", TopVehicleTypes(data, view, tie)),
     pie |-> Fig("Injuries vs Fatalities", InjuredKilled(data, view)),
     map |-> MapFig(data, view),
     line |-> Fig("Crashes Over the Years", CrashesPerYear(data, view)),
     heat |-> Fig("Injuries by Borough x Year", InjuryMatrix(data, view)),
     hist |-> Fig("Injury Count Distribution",
                  Column(data, view, "number_of_persons_injured")),
     scatter |-> Fig("Scatter: Injuries vs Fatalities", ScatterPoints(data, view)),
     sunburst |-> Fig("Sunburst: Borough, Vehicle Type, Injuries", SunData(data, view)),
     context |-> Context(data, b, y)]

\* the eight chart slots of the template
Slots == {"bar", "pie", "map", "line", "heat", "hist", "scatter", "sunburst"}

\* a guard that also takes a view of one row for empty
IsEmptyOffByOne(view) == Len(view) <= 1

\* `if filtered.empty`, line 66
IsEmpty(view) == Len(view) = 0

\* `filtered = df` without the copy, the rows then dropped in place
DfFilteredInPlace(data, view) == [k \in 1..Len(view) |-> data[view[k]]]

\* line 30: index() filters a copy of df and only rebinds its local name, so
\* the module's df after the request is df as it was
DfAfterRequest(data, view) == data

\* ---------------------------------------------------------------- requests

\* The form values a POST draws from. A field that is absent reads as the
\* empty text: both are false in the tests of lines 44, 47 and 50.
\* borough: "", "All", "bronx", "QUEENS"
\* year: "", "All", "2020", " 2021", "all"
\* search: "", "All", "Bronx 2020", "queens bronx", "pedestrian",
\*         "2021 in QUEENS"
BoroughInputs == { <<>>, All, <<"b","r","o","n","x">>, <<"Q","U","E","E","N","S">> }

YearInputs == { <<>>, All, <<"2","0","2","0">>, <<" ","2","0","2","1">>, <<"a","l","l">> }

SearchInputs == { <<>>, All, <<"B","r","o","n","x"," ","2","0","2","0">>, <<"q","u","e","e","n","s"," ","b","r","o","n","x">>, <<"p","e","d","e","s","t","r","i","a","n">>,
                  <<"2","0","2","1"," ","i","n"," ","Q","U","E","E","N","S">> }

\* ------------------------------------------------------------------ actions

\* no response: before a request, and where index() raised
NoResp == <<>>

Init ==
    /\ df \in { LoadData(raw) : raw \in RawDatasets }
    /\ phase = "idle"
    /\ method = "none"
    /\ borough = <<>>
    /\ year = <<>>
    /\ search = <<>>
    /\ filtered = <<>>
    /\ outcome = "none"
    /\ resp = NoResp

\* index(), lines 28-196. `tie` is the order each of the build's two sorts
\* leaves equal counts in. Where int(year) raises, the view is as line 45
\* left it and no response is built.
Index(m, b, y, text, tie) ==
    /\ phase = "idle"
    /\ phase' = "responded"
    /\ method' = m
    /\ borough' = b
    /\ year' = y
    /\ search' = text
    /\ IF m = "POST" /\ YearRaises(y)
       THEN /\ filtered' = ExactBorough(df, AllRows(df), b)
            /\ outcome' = "error"
            /\ resp' = NoResp
       ELSE /\ filtered' = ApplyFilters(df, m, b, y, text)
            /\ IF IsEmpty(filtered')
               THEN /\ outcome' = "fallback"
                    /\ resp' = FallbackResponse(df, b, y)
               ELSE /\ outcome' = "charts"
                    /\ resp' = ChartsResponse(df, filtered', b, y, tie)
    /\ df' = DfAfterRequest(df, filtered')

\* GET /: the fields stay None and the whole dataset is charted
Get == \E tie \in TieOrders : Index("GET", <<>>, <<>>, <<>>, tie)

\* POST /: the three form fields are read and the filters applied
Post == \E b \in BoroughInputs, y \in YearInputs, text \in SearchInputs,
           tie \in TieOrders :
            Index("POST", b, y, text, tie)

\* the request ends: the locals of index() are gone, df stays
Teardown ==
    /\ phase = "responded"
    /\ phase' = "idle"
    /\ method' = "none"
    /\ borough' = <<>>
    /\ year' = <<>>
    /\ search' = <<>>
    /\ filtered' = <<>>
    /\ outcome' = "none"
    /\ resp' = NoResp
    /\ df' = df

Next == Get \/ Post \/ Teardown

Spec == Init /\ [][Next]_vars

\* -------------------------------------------------------------- properties

\* index() has built a response (it did not raise)
Built == outcome \in {"fallback", "charts"}

\* the rows of the view
ViewRow(k) == df[filtered[k]]

ViewPositions == 1..Len(filtered)

\* the known boroughs, and the known years, that the lower-cased search text
\* mentions
MentionedBoroughs ==
    LET In(b) == IsSubstr(Lower(b), Lower(search))
    IN  SelectSeq(KnownBoroughs(df), In)

MentionedYears ==
    LET In(y) == IsSubstr(IntToStr(y), Lower(search))
    IN  SelectSeq(KnownYears(df), In)

\* C1: after a POST whose borough field B is set (not empty, not "All"), every
\* row of the view has borough upper(B), whatever year and search are; and
\* where the year field is set and is an integer literal, every row of the
\* view has year int(Y). Both hold together.
C1_ExactFiltersHold ==
    method = "POST" =>
        /\ IsSet(borough) =>
              \A k \in ViewPositions : ViewRow(k).borough = Upper(borough)
        /\ (IsSet(year) /\ ParseInt(year).ok) =>
              \A k \in ViewPositions : ViewRow(k).year = ParseInt(year).val

\* a POST with both exact filters and a search text set that leaves rows
C1_Witness ==
    /\ method = "POST" /\ outcome = "charts"
    /\ IsSet(borough) /\ borough # Upper(borough)
    /\ IsSet(year) /\ search # <<>>
    /\ Len(filtered) < Len(df)

\* C2: index() returns the fallback response exactly when the view has no
\* rows: then all eight slots hold the same placeholder figure "No Data
\* Available" and no aggregate is computed; with a row in the view no slot
\* holds the placeholder; and the only request that raises is one whose year
\* is no integer.
C2_EmptyViewFallback ==
    /\ Built => (Len(filtered) = 0 <=> outcome = "fallback")
    /\ outcome = "fallback" => \A s \in Slots : resp[s] = EmptyFig
    /\ outcome = "charts" => \A s \in Slots : resp[s].title # EmptyFig.title
    /\ outcome = "error" => method = "POST" /\ ~ParseInt(year).ok

\* a POST over a dataset with rows that matches none of them
C2_Witness ==
    /\ method = "POST" /\ outcome = "fallback"
    /\ Len(df) > 0 /\ resp["sunburst"] = EmptyFig

\* C3: a POST whose year is set and is no integer literal ends in the
\* fallback response.
C3_MalformedYearIsNoMatch ==
    (method = "POST" /\ IsSet(year) /\ ~ParseInt(year).ok) => outcome = "fallback"

Pedestrian == <<"p","e","d","e","s","t","r","i","a","n">>

\* C5: where the search text contains "pedestrian", every row of the view has
\* a contributing-factor text that contains "pedestrian", case-insensitively.
C5_PedestrianRestricts ==
    (method = "POST" /\ Built /\ IsSubstr(Pedestrian, Lower(search)))
    => \A k \in ViewPositions :
          IsSubstr(Pedestrian, Lower(ViewRow(k).contributing_factor))

\* C6: no request changes df.
C6_DatasetNeverMutated == [][df' = df]_vars

\* a request has narrowed its view below the dataset
C6_Witness ==
    /\ phase = "responded" /\ method = "POST"
    /\ Len(filtered) > 0 /\ Len(filtered) < Len(df)

\* C7: where the borough and year fields are unset and the search mentions
\* exactly one known borough and exactly one known year, the view is exactly
\* the dataset's rows of that borough and that year.
C7_SearchBoroughAndYear ==
    (/\ method = "POST" /\ ~IsSet(borough) /\ ~IsSet(year)
     /\ Len(MentionedBoroughs) = 1 /\ Len(MentionedYears) = 1)
    => LET Both(i) == /\ df[i].borough = MentionedBoroughs[1]
                      /\ df[i].year = MentionedYears[1]
       IN  filtered = SelectSeq(AllRows(df), Both)

\* such a search that leaves some rows and drops others
C7_Witness ==
    /\ method = "POST" /\ ~IsSet(borough) /\ ~IsSet(year)
    /\ Len(MentionedBoroughs) = 1 /\ Len(MentionedYears) = 1
    /\ Len(filtered) > 0
    /\ \E i \in 1..Len(df) : df[i].borough = MentionedBoroughs[1]
                             /\ df[i].year # MentionedYears[1]

\* the vehicle types of the view, and the bar chart's entries
ViewTypes == Column(df, filtered, "vehicle_type_code1")

Bar == resp.bar.data

FirstSeen(v) == CHOOSE k \in 1..Len(ViewTypes) :
                    ViewTypes[k] = v /\ \A j \in 1..(k - 1) : ViewTypes[j] # v

\* the bar chart lists min(10, number of types) distinct types, each with its
\* number of rows, descending, and no omitted type has more rows than a
\* listed one
TopTenByCount ==
    /\ Len(Bar) = Min(10, Cardinality(Range(ViewTypes)))
    /\ \A k \in 1..Len(Bar) :
          /\ Bar[k].vehicle_type \in Range(ViewTypes)
          /\ Bar[k].count = CountOf(ViewTypes, Bar[k].vehicle_type)
    /\ \A k, l \in 1..Len(Bar) :
          k < l => /\ Bar[k].count >= Bar[l].count
                   /\ Bar[k].vehicle_type # Bar[l].vehicle_type
    /\ \A v \in Range(ViewTypes) :
          (\A k \in 1..Len(Bar) : Bar[k].vehicle_type # v)
          => \A k \in 1..Len(Bar) : CountOf(ViewTypes, v) <= Bar[k].count

\* C8 as stated: the top-10 aggregate of a view with rows is as TopTenByCount
\* says, and types of equal count are listed in the order in which the view
\* first shows them.
C8_TopTenTiesByEncounter ==
    outcome = "charts" =>
        /\ TopTenByCount
        /\ \A k, l \in 1..Len(Bar) :
              (k < l /\ Bar[k].count = Bar[l].count)
              => FirstSeen(Bar[k].vehicle_type) < FirstSeen(Bar[l].vehicle_type)

\* C8 amended: the top-10 aggregate of a view with rows is as TopTenByCount
\* says; the order among types of equal count is not fixed.
C8_TopTen == outcome = "charts" => TopTenByCount

\* a view with more than ten vehicle types, some of equal count, some omitted
C8_Witness ==
    /\ outcome = "charts"
    /\ Cardinality(Range(ViewTypes)) > 10 /\ Len(Bar) = 10
    /\ Bar[1].count > Bar[10].count
    /\ Bar[9].count = Bar[10].count

Heat == resp.heat.data

InjuredOf(b, y) ==
    LET In(k) == ViewRow(k).borough = b /\ ViewRow(k).year = y
        RECURSIVE Total(_)
        Total(k) == IF k = 0 THEN 0
                    ELSE Total(k - 1)
                         + (IF In(k) THEN ViewRow(k).number_of_persons_injured ELSE 0)
    IN  Total(Len(filtered))

PairInView(b, y) ==
    \E k \in ViewPositions : ViewRow(k).borough = b /\ ViewRow(k).year = y

\* every cell of the matrix holds the injured total of its (borough, year)
\* pair, which is 0 for a pair no row of the view has
CellsAreSums ==
    /\ \A i \in 1..Len(Heat.index), j \in 1..Len(Heat.columns) :
          /\ Heat.z[i][j] = InjuredOf(Heat.index[i], Heat.columns[j])
          /\ Heat.z[i][j] >= 0
          /\ ~PairInView(Heat.index[i], Heat.columns[j]) => Heat.z[i][j] = 0
    /\ Len(Heat.z) = Len(Heat.index)
    /\ \A i \in 1..Len(Heat.index) : Len(Heat.z[i]) = Len(Heat.columns)
    /\ Cardinality(Range(Heat.index)) = Len(Heat.index)
    /\ Cardinality(Range(Heat.columns)) = Len(Heat.columns)

\* C9 as stated: the matrix of a view with rows has the view's boroughs as
\* rows and the view's years as columns, and its cells are as CellsAreSums
\* says.
C9_MatrixOfAllBoroughs ==
    outcome = "charts" =>
        /\ Range(Heat.index) = { ViewRow(k).borough : k \in ViewPositions }
        /\ Range(Heat.columns) =
              { ViewRow(k).year : k \in ViewPositions } \ {NaN}
        /\ CellsAreSums

\* C9 amended: the rows of the matrix are the boroughs of the view's rows
\* that have a year, its columns are the years of those rows, and its cells
\* are as CellsAreSums says; a borough whose rows all lack a year has no row
\* in the matrix.
C9_MatrixOfDatedRows ==
    outcome = "charts" =>
        /\ Range(Heat.index) =
              { ViewRow(k).borough :
                   k \in { n \in ViewPositions : ViewRow(n).year # NaN } }
        /\ Range(Heat.columns) =
              { ViewRow(k).year : k \in ViewPositions } \ {NaN}
        /\ CellsAreSums

\* a matrix with a filled cell (a pair no row has), a cell summing two rows,
\* and a borough left out because its rows have no year
C9_Witness ==
    /\ outcome = "charts"
    /\ \E i \in 1..Len(Heat.index), j \in 1..Len(Heat.columns) :
          ~PairInView(Heat.index[i], Heat.columns[j])
    /\ \E i \in 1..Len(Heat.index), j \in 1..Len(Heat.columns) :
          Heat.z[i][j] >= 2
    /\ \E k \in ViewPositions : ViewRow(k).borough \notin Range(Heat.index)

\* the view keeps the dataset's labels in the dataset's order
IsSubsequence ==
    /\ \A k \in ViewPositions : filtered[k] \in 1..Len(df)
    /\ \A k, l \in ViewPositions : k < l => filtered[k] < filtered[l]

\* the view equals the one that the search restrictions first and the exact
\* filters second give
OrderIndependent ==
    (method = "POST" /\ Built)
    => filtered = ExactYear(df,
                            ExactBorough(df, SearchFilter(df, AllRows(df), search),
                                         borough),
                            year)

EmptyOrAll(field) == field = <<>> \/ field = All

\* C10 as stated: the view is an order-preserving subsequence of the dataset,
\* the order of the restrictions does not matter, and a GET, or a POST whose
\* three fields are each empty or "All", yields the full dataset.
C10_AllFieldsUnsetGiveAll ==
    /\ IsSubsequence
    /\ OrderIndependent
    /\ (\/ method = "GET"
        \/ method = "POST" /\ EmptyOrAll(borough) /\ EmptyOrAll(year)
                           /\ EmptyOrAll(search))
       => filtered = AllRows(df)

\* C10 amended: as stated, but the POST yields the full dataset where borough
\* and year are each empty or "All" and the search text is empty or mentions
\* no known borough and no known year (the search text "All" is searched like
\* any other text).
C10_NoRestrictionGivesAll ==
    /\ IsSubsequence
    /\ OrderIndependent
    /\ (\/ method = "GET"
        \/ /\ method = "POST" /\ EmptyOrAll(borough) /\ EmptyOrAll(year)
           /\ \/ search = <<>>
              \/ Len(MentionedBoroughs) = 0 /\ Len(MentionedYears) = 0)
       => filtered = AllRows(df)

\* a POST with both exact filters set and a search that mentions a borough
\* and a year, leaving some rows
C10_Witness ==
    /\ method = "POST" /\ outcome = "charts"
    /\ IsSet(borough) /\ IsSet(year)
    /\ Len(MentionedBoroughs) = 1 /\ Len(MentionedYears) = 1
    /\ Len(filtered) < Len(df)

====
